---------------------------- MODULE Spec2Model ----------------------------
(***************************************************************************)
(* A model of the ZED-F9R NMEA pipeline: the line framer and epoch         *)
(* rollover of I2CGNSSParser.poll (i2c_parser.py), the sentence decoder    *)
(* and epoch aggregator NMEADecoder (nmea_decoder.py) and the coordinate   *)
(* converter UCMConverter (ucm_calc.py).                                   *)
(*                                                                         *)
(* Text is modelled by TLA+ strings (Head, Tail, SubSeq, Len and \o work   *)
(* on them), bytes by integers 0..255.  Python's None is Null for object   *)
(* references (frames, the origin) and the empty tuple for optional        *)
(* values; Some(v) is the one-element tuple.                               *)
(***************************************************************************)
EXTENDS Integers, Sequences, FiniteSets, TLC

VARIABLES
    verify_checksum,   \* NMEADecoder.verify_checksum
    aliases,           \* NMEADecoder._aliases
    epoch_counter,     \* NMEADecoder._epoch_counter
    current,           \* NMEADecoder._current: a reference into frames, or Null
    frames,            \* the heap of EpochFrame objects ever created, by reference
    now,               \* the clock time.time() reads
    fixed_zone,        \* UCMConverter.fixed_zone
    origin_utm,        \* UCMConverter._origin_utm
    origin_set,        \* I2CGNSSParser._origin_set
    on_ucm,            \* I2CGNSSParser.on_ucm is not None
    on_epoch_end,      \* I2CGNSSParser.on_epoch_end is not None
    drop_ff_padding,   \* I2CGNSSParser.drop_ff_padding
    line_buf,          \* I2CGNSSParser._line_buf
    pending_ucm,       \* I2CGNSSParser._pending_ucm
    last_succesful_frame, \* I2CGNSSParser.last_succesful_frame
    bus_open,          \* I2CGNSSParser._bus is not None
    wire,              \* bytes the receiver holds ready on the bus
    call,              \* the operation invoked last, with its arguments
    ret,               \* what that operation returned or raised
    hist               \* history of the run: what was fed, emitted, closed, notified

vars == << verify_checksum, aliases, epoch_counter, current, frames, now,
           fixed_zone, origin_utm, origin_set, on_ucm, on_epoch_end,
           drop_ff_padding, line_buf, pending_ucm, last_succesful_frame,
           bus_open, wire, call, ret, hist >>

-----------------------------------------------------------------------------
(* Python values *)

Null == 0

None == << >>

Some(v) == << v >>

IsNone(o) == Len(o) = 0

Val(o) == o[1]

\* F(v), with v evaluated once however often F uses it.
With(v, F(_)) == F(v)

-----------------------------------------------------------------------------
(* Characters and bytes.  AsciiUpper lists the ASCII characters of codes   *)
(* 32..95 in code order and AsciiLower those of codes 97..126 (code 96,    *)
(* the grave accent, cannot be written in a TLA+ string and is left out    *)
(* of the modelled alphabet).                                              *)

AsciiUpper == " !\"#$%&'()*+,-./0123456789:;<=>?@ABCDEFGHIJKLMNOPQRSTUVWXYZ[\\]^_"

AsciiLower == "abcdefghijklmnopqrstuvwxyz{|}~"

LF == 10

FILLER == 255

\* The character bytes.decode("ascii", errors="replace") puts for a byte that
\* is not ASCII (U+FFFD, which no ASCII byte decodes to).
REPLACEMENT == "\f"

Chars == { SubSeq(AsciiUpper, i, i) : i \in 1..Len(AsciiUpper) }
         \cup { SubSeq(AsciiLower, i, i) : i \in 1..Len(AsciiLower) }
         \cup { "\n", "\r", "\t" }

OrdTable == [ c \in Chars |->
                 IF c = "\n" THEN 10
                 ELSE IF c = "\r" THEN 13
                 ELSE IF c = "\t" THEN 9
                 ELSE IF \E i \in 1..Len(AsciiUpper) : SubSeq(AsciiUpper, i, i) = c
                 THEN 31 + (CHOOSE i \in 1..Len(AsciiUpper) : SubSeq(AsciiUpper, i, i) = c)
                 ELSE 96 + (CHOOSE i \in 1..Len(AsciiLower) : SubSeq(AsciiLower, i, i) = c) ]

\* ord(c); U+FFFD is code point 65533.
ord(c) == IF c = REPLACEMENT THEN 65533 ELSE OrdTable[c]

chr(b) ==
    IF b = 10 THEN "\n"
    ELSE IF b = 13 THEN "\r"
    ELSE IF b = 9 THEN "\t"
    ELSE IF b >= 32 /\ b <= 95 THEN SubSeq(AsciiUpper, b - 31, b - 31)
    ELSE IF b >= 97 /\ b <= 126 THEN SubSeq(AsciiLower, b - 96, b - 96)
    ELSE REPLACEMENT

\* bytes[lo..hi].decode("ascii", errors="replace"): every byte decodes by
\* itself, so the text of a range is the text of its left half followed by
\* the text of its right half.
RECURSIVE decode_range(_, _, _)
decode_range(bytes, lo, hi) ==
    IF lo > hi THEN ""
    ELSE IF lo = hi THEN chr(bytes[lo])
    ELSE decode_range(bytes, lo, (lo + hi) \div 2)
         \o decode_range(bytes, ((lo + hi) \div 2) + 1, hi)

decode_ascii(bytes) == decode_range(bytes, 1, Len(bytes))

\* s.encode("ascii")
encode_ascii(s) == [ i \in 1..Len(s) |-> ord(SubSeq(s, i, i)) ]

-----------------------------------------------------------------------------
(* str methods *)

isspace(c) == c \in { " ", "\n", "\r", "\t" }

\* The smallest element of a non-empty set of integers
MinOf(S) == CHOOSE i \in S : \A j \in S : i <= j

MaxOf(S) == CHOOSE i \in S : \A j \in S : j <= i

\* The positions of s that hold no white space
Inked(s) == { i \in 1..Len(s) : ~isspace(SubSeq(s, i, i)) }

lstrip(s) == IF Inked(s) = { } THEN "" ELSE SubSeq(s, MinOf(Inked(s)), Len(s))

rstrip(s) == IF Inked(s) = { } THEN "" ELSE SubSeq(s, 1, MaxOf(Inked(s)))

strip(s) == IF Inked(s) = { } THEN "" ELSE SubSeq(s, MinOf(Inked(s)), MaxOf(Inked(s)))

startswith(s, p) == Len(s) >= Len(p) /\ SubSeq(s, 1, Len(p)) = p

\* The positions of s that hold c
Places(s, c) == { i \in 1..Len(s) : SubSeq(s, i, i) = c }

\* s.find(c): the 1-based index of the first c in s, 0 when there is none.
find(s, c) == IF Places(s, c) = { } THEN 0 ELSE MinOf(Places(s, c))

contains(s, c) == find(s, c) > 0

\* s.split(c, 1)[0]
split_first(s, c) ==
    LET k == find(s, c) IN IF k = 0 THEN s ELSE SubSeq(s, 1, k - 1)

\* The parts of s between the positions at, in their order: the k-th part
\* lies between the (k-1)-th and the k-th position (0 and Len(s) + 1 bound
\* the first and the last part).
parts_between(s, at) ==
    LET nth(k) == IF k = 0 THEN 0
                  ELSE IF k > Cardinality(at) THEN Len(s) + 1
                  ELSE CHOOSE i \in at : Cardinality({ j \in at : j < i }) = k - 1
    IN  [ k \in 1..(Cardinality(at) + 1) |-> SubSeq(s, nth(k - 1) + 1, nth(k) - 1) ]

\* s.split(c): the list of the parts of s between the occurrences of c.
split(s, c) == parts_between(s, Places(s, c))

\* s[a:b] with 0 <= a <= b, as Python clips it.
slice(s, a, b) ==
    LET hi == IF b > Len(s) THEN Len(s) ELSE b
    IN  IF a >= hi THEN "" ELSE SubSeq(s, a + 1, hi)

upper(c) ==
    IF Len(c) = 1 /\ c \in Chars /\ ord(c) >= 97 /\ ord(c) <= 122
    THEN chr(ord(c) - 32) ELSE c

isdigit(c) == c \in { "0", "1", "2", "3", "4", "5", "6", "7", "8", "9" }

HexDigits == "0123456789ABCDEF"

ishex(c) == isdigit(c) \/ c \in { "A", "B", "C", "D", "E", "F", "a", "b", "c", "d", "e", "f" }

hexval(c) == find(HexDigits, upper(c)) - 1

RECURSIVE upper_range(_, _, _)
upper_range(s, lo, hi) ==
    IF lo > hi THEN ""
    ELSE IF lo = hi THEN upper(SubSeq(s, lo, lo))
    ELSE upper_range(s, lo, (lo + hi) \div 2)
         \o upper_range(s, ((lo + hi) \div 2) + 1, hi)

\* s.upper()
upper_str(s) == upper_range(s, 1, Len(s))

-----------------------------------------------------------------------------
(* int(x) and float(x) on text.  A ValueError is None here: every caller in *)
(* the decoder catches it.  Numbers read by float() are kept in            *)
(* thousandths (three decimals, further digits dropped); the exponent,     *)
(* inf and nan spellings float() also takes are outside the input          *)
(* alphabet of the model.                                                  *)

\* A digit string in which single underscores may separate digits.
is_digits(s) ==
    /\ Len(s) > 0
    /\ \A i \in 1..Len(s) :
          \/ isdigit(SubSeq(s, i, i))
          \/ /\ SubSeq(s, i, i) = "_"
             /\ 1 < i /\ i < Len(s)
             /\ isdigit(SubSeq(s, i - 1, i - 1)) /\ isdigit(SubSeq(s, i + 1, i + 1))

\* The number a digit string spells, its underscores skipped.
RECURSIVE digits_upto(_, _)
digits_upto(s, n) ==
    IF n = 0 THEN 0
    ELSE IF SubSeq(s, n, n) = "_" THEN digits_upto(s, n - 1)
    ELSE 10 * digits_upto(s, n - 1) + (ord(SubSeq(s, n, n)) - 48)

digits_value(s) == digits_upto(s, Len(s))

has_sign(s) == Len(s) > 0 /\ Head(s) \in { "+", "-" }

unsigned(s) == IF has_sign(s) THEN Tail(s) ELSE s

signed(s, v) == IF has_sign(s) /\ Head(s) = "-" THEN 0 - v ELSE v

\* int(x)
py_int(x) ==
    With(strip(x), LAMBDA t : With(unsigned(t), LAMBDA u :
         IF is_digits(u) THEN Some(signed(t, digits_value(u))) ELSE None))

\* The number of digits of a digit string
digit_count(d) == Cardinality({ i \in 1..Len(d) : isdigit(SubSeq(d, i, i)) })

\* The fraction 0.d of a digit string d, in thousandths.
frac_milli(d) ==
    IF digit_count(d) <= 3 THEN digits_value(d) * (10 ^ (3 - digit_count(d)))
    ELSE digits_value(d) \div (10 ^ (digit_count(d) - 3))

\* The number with the integer digits ip and the fraction digits fp, in
\* thousandths and with the sign of t; None when they spell no number.
float_of(t, ip, fp) ==
    IF /\ (Len(ip) > 0 \/ Len(fp) > 0)
       /\ (Len(ip) = 0 \/ is_digits(ip))
       /\ (Len(fp) = 0 \/ is_digits(fp))
    THEN Some(signed(t, 1000 * (IF Len(ip) = 0 THEN 0 ELSE digits_value(ip))
                        + (IF Len(fp) = 0 THEN 0 ELSE frac_milli(fp))))
    ELSE None

\* float(x), in thousandths.
py_float(x) ==
    With(strip(x), LAMBDA t : With(unsigned(t), LAMBDA u : With(find(u, "."), LAMBDA k :
         float_of(t, IF k = 0 THEN u ELSE SubSeq(u, 1, k - 1),
                     IF k = 0 THEN "" ELSE SubSeq(u, k + 1, Len(u))))))

-----------------------------------------------------------------------------
(* nmea_decoder.py: utilities *)

\* a ^ b on 4-bit numbers
Xor4 == [ a \in 0..15 |-> [ b \in 0..15 |->
            (((a + b) % 2)
             + 2 * (((a \div 2) + (b \div 2)) % 2))
            + (4 * (((a \div 4) + (b \div 4)) % 2)
               + 8 * (((a \div 8) + (b \div 8)) % 2)) ] ]

\* a ^ b (16 bits: the code points of the alphabet)
bit_xor(a, b) ==
    (Xor4[a % 16][b % 16]
     + 16 * Xor4[(a \div 16) % 16][(b \div 16) % 16])
    + (256 * Xor4[(a \div 256) % 16][(b \div 256) % 16]
       + 4096 * Xor4[(a \div 4096) % 16][(b \div 4096) % 16])

\* ord(body[lo]) ^ ... ^ ord(body[hi]).  ^ is associative: the halves are
\* folded apart and then combined, which keeps the evaluation shallow.
RECURSIVE xor_range(_, _, _)
xor_range(body, lo, hi) ==
    IF lo > hi THEN 0
    ELSE IF lo = hi THEN ord(SubSeq(body, lo, lo))
    ELSE bit_xor(xor_range(body, lo, (lo + hi) \div 2),
                 xor_range(body, ((lo + hi) \div 2) + 1, hi))

\* cs = 0; for ch in body: cs ^= ord(ch)
nmea_checksum_xor(body) == bit_xor(0, xor_range(body, 1, Len(body)))

\* _NMEA_RE.match(line): None, or the groups body and cs (cs None when the
\* sentence declares no checksum).  The body is the longest run of
\* characters other than '*' after the '$' and is not empty; a '*' must be
\* followed by exactly two hex digits; only white space may follow.
NMEA_RE_match(line) ==
    IF ~startswith(line, "$") THEN None
    ELSE With(Tail(line), LAMBDA rest : With(find(rest, "*"), LAMBDA k :
         IF k = 0
         THEN IF Len(rest) = 0 THEN None
              ELSE Some([body |-> rest, cs |-> None])
         ELSE With(SubSeq(rest, k + 1, Len(rest)), LAMBDA tl :
              IF /\ k > 1
                 /\ Len(tl) >= 2
                 /\ ishex(SubSeq(tl, 1, 1)) /\ ishex(SubSeq(tl, 2, 2))
                 /\ Len(strip(slice(tl, 2, Len(tl)))) = 0
              THEN Some([body |-> SubSeq(rest, 1, k - 1), cs |-> Some(slice(tl, 0, 2))])
              ELSE None)))

\* int(cs_hex, 16) of two hex digits
int16(cs) == 16 * hexval(SubSeq(cs, 1, 1)) + hexval(SubSeq(cs, 2, 2))

\* Degrees are kept in units of 1/60000 degree: one thousandth of a minute.
DegUnit == 60 * 1000

\* deg + minutes / 60.0 of the parsed degrees (int) and minutes (float),
\* negated in the southern and western hemispheres
signed_degrees(deg, minutes, hemi) ==
    IF IsNone(deg) \/ IsNone(minutes) THEN None
    ELSE IF hemi \in { "S", "W" }
    THEN Some(0 - (Val(deg) * DegUnit + Val(minutes)))
    ELSE Some(Val(deg) * DegUnit + Val(minutes))

parse_lat_lon(nmea_value, hemi) ==
    IF Len(nmea_value) = 0 \/ Len(hemi) = 0 THEN None
    ELSE IF ~contains(nmea_value, ".") THEN None
    ELSE With(upper_str(hemi), LAMBDA h :
         With(IF h \in { "N", "S" } THEN 2 ELSE 3, LAMBDA deg_digits :
              signed_degrees(py_int(slice(nmea_value, 0, deg_digits)),
                             py_float(slice(nmea_value, deg_digits, Len(nmea_value))),
                             h)))

-----------------------------------------------------------------------------
(* nmea_decoder.py: message types.  Every record carries the class that    *)
(* built it (cls) and the NMEAMessage fields; the classes with a position  *)
(* carry lat_deg and lon_deg.  The other kind-specific fields (times,      *)
(* counts, dilutions, speeds) are read by no operation modelled here and   *)
(* are left out.                                                           *)

NMEAMessage(cls, talker, msg_type, raw, fields, checksum_ok) ==
    [ cls |-> cls, talker |-> talker, msg_type |-> msg_type, raw |-> raw,
      fields |-> fields, checksum_ok |-> checksum_ok ]

WithPosition(m, lat, lon) ==
    [ cls |-> m.cls, talker |-> m.talker, msg_type |-> m.msg_type, raw |-> m.raw,
      fields |-> m.fields, checksum_ok |-> m.checksum_ok,
      lat_deg |-> lat, lon_deg |-> lon ]

\* (fields + [""] * n)[:n]
pad(fields, n) ==
    [ i \in 1..n |-> IF i <= Len(fields) THEN fields[i] ELSE "" ]

parse_gga(talker, msg_type, raw, fields, checksum_ok) ==
    LET f == pad(fields, 14)
    IN  WithPosition(NMEAMessage("NMEAGGA", talker, msg_type, raw, fields, checksum_ok),
                     parse_lat_lon(f[2], f[3]), parse_lat_lon(f[4], f[5]))

parse_rmc(talker, msg_type, raw, fields, checksum_ok) ==
    LET f == pad(fields, 12)
    IN  WithPosition(NMEAMessage("NMEARMC", talker, msg_type, raw, fields, checksum_ok),
                     parse_lat_lon(f[3], f[4]), parse_lat_lon(f[5], f[6]))

parse_gll(talker, msg_type, raw, fields, checksum_ok) ==
    LET f == pad(fields, 7)
    IN  WithPosition(NMEAMessage("NMEAGLL", talker, msg_type, raw, fields, checksum_ok),
                     parse_lat_lon(f[1], f[2]), parse_lat_lon(f[3], f[4]))

parse_gsa(talker, msg_type, raw, fields, checksum_ok) ==
    NMEAMessage("NMEAGSA", talker, msg_type, raw, fields, checksum_ok)

parse_vtg(talker, msg_type, raw, fields, checksum_ok) ==
    NMEAMessage("NMEAVTG", talker, msg_type, raw, fields, checksum_ok)

parse_txt(talker, msg_type, raw, fields, checksum_ok) ==
    NMEAMessage("NMEATXT", talker, msg_type, raw, fields, checksum_ok)

\* A registry in which the kinds ZDA and XYZ have the text parser
parsers_and_more == { "GGA", "GSA", "RMC", "VTG", "GLL", "TXT", "ZDA", "XYZ" }

\* The keys of NMEADecoder._parsers (register_parser is not modelled: the
\* registry holds the six built-in parsers).
parsers == { "GGA", "GSA", "RMC", "VTG", "GLL", "TXT" }

-----------------------------------------------------------------------------
(* nmea_decoder.py: EpochFrame.  messages_by_type is a dict: here the      *)
(* sequence of its items in insertion order.                               *)

EpochFrame(epoch_id, t_recv_s) ==
    [ epoch_id |-> epoch_id, t_recv_s |-> t_recv_s, messages_by_type |-> << >> ]

has_key(d, key) == \E i \in 1..Len(d) : d[i].key = key

\* EpochFrame.get
get(frame, msg_type) ==
    LET d == frame.messages_by_type
    IN  IF has_key(d, msg_type)
        THEN d[CHOOSE i \in 1..Len(d) : d[i].key = msg_type].msgs
        ELSE << >>

\* An add that keeps one record of a kind, the last one added
add_replacing(frame, msg) ==
    [ frame EXCEPT !.messages_by_type =
        SelectSeq(@, LAMBDA item : item.key # msg.msg_type)
        \o << [ key |-> msg.msg_type, msgs |-> << msg >> ] >> ]

\* EpochFrame.add
add(frame, msg) ==
    LET d == frame.messages_by_type
    IN  [ frame EXCEPT !.messages_by_type =
            IF has_key(d, msg.msg_type)
            THEN [ i \in 1..Len(d) |->
                     IF d[i].key = msg.msg_type
                     THEN [ key |-> d[i].key, msgs |-> Append(d[i].msgs, msg) ]
                     ELSE d[i] ]
            ELSE Append(d, [ key |-> msg.msg_type, msgs |-> << msg >> ]) ]

\* EpochFrame.GGA
GGA(frame) == SelectSeq(get(frame, "GGA"), LAMBDA m : m.cls = "NMEAGGA")

\* Every record of a frame, kind by kind.
RECURSIVE items_upto(_, _)
items_upto(d, n) ==
    IF n = 0 THEN << >> ELSE items_upto(d, n - 1) \o d[n].msgs

records(frame) == items_upto(frame.messages_by_type, Len(frame.messages_by_type))

-----------------------------------------------------------------------------
(* nmea_decoder.py: NMEADecoder.  A decoder is the record of its fields    *)
(* with the heap of frames and the clock; a method is an operator from a   *)
(* decoder to the decoder after the call (d) and the value returned (ret). *)

Decoder == [ verify_checksum |-> verify_checksum, aliases |-> aliases,
             epoch_counter |-> epoch_counter, current |-> current,
             frames |-> frames, now |-> now ]

\* NMEADecoder.__init__
NewDecoder(verify) ==
    [ verify_checksum |-> verify, aliases |-> << >>, epoch_counter |-> 0,
      current |-> Null, frames |-> << >>, now |-> 0 ]

\* An alias lookup that finds no alias
alias_ignored(al, msg_type) == msg_type

\* self._aliases.get(msg_type, msg_type)
alias_get(al, msg_type) ==
    IF msg_type \in DOMAIN al THEN al[msg_type] ELSE msg_type

register_alias(d, msg_type, target_type) ==
    [ d EXCEPT !.aliases =
        [ k \in (DOMAIN d.aliases) \cup { msg_type } |->
            IF k = msg_type THEN target_type ELSE d.aliases[k] ] ]

\* A begin_epoch that does nothing when an epoch is open
begin_epoch_if_closed(d, epoch_id, t_recv_s) ==
    IF d.current # Null THEN d
    ELSE [ d EXCEPT !.epoch_counter = IF IsNone(epoch_id) THEN @ + 1 ELSE @,
                    !.now = IF IsNone(t_recv_s) THEN @ + 1 ELSE @,
                    !.frames = Append(@, EpochFrame(IF IsNone(epoch_id)
                                                    THEN d.epoch_counter + 1
                                                    ELSE Val(epoch_id),
                                                    IF IsNone(t_recv_s) THEN d.now
                                                    ELSE Val(t_recv_s))),
                    !.current = Len(d.frames) + 1 ]

begin_epoch(d, epoch_id, t_recv_s) ==
    LET counter == IF IsNone(epoch_id) THEN d.epoch_counter + 1 ELSE d.epoch_counter
        id      == IF IsNone(epoch_id) THEN counter ELSE Val(epoch_id)
        t       == IF IsNone(t_recv_s) THEN d.now ELSE Val(t_recv_s)
    IN  [ d EXCEPT !.epoch_counter = counter,
                   !.now = IF IsNone(t_recv_s) THEN d.now + 1 ELSE d.now,
                   !.frames = Append(d.frames, EpochFrame(id, t)),
                   !.current = Len(d.frames) + 1 ]

\* An end_epoch that returns the open frame and leaves it open
end_epoch_keeping(d) == [ d |-> d, ret |-> d.current ]

end_epoch(d) ==
    [ d |-> [ d EXCEPT !.current = Null ], ret |-> d.current ]

current_frame(d) == d.current

\* Lines 361-381 of _parse_line: the record of a sentence with these parts
\* of its body.
parse_parts(d, line, parts, checksum_ok) ==
    IF Len(parts[1]) < 5 THEN None
    ELSE With(slice(parts[1], 0, 2), LAMBDA talker :
         With(slice(parts[1], 2, Len(parts[1])), LAMBDA msg_type :
         With(alias_get(d.aliases, msg_type), LAMBDA parse_type :
         With(Tail(parts), LAMBDA fields :
              Some(
              IF parse_type \notin parsers
              THEN NMEAMessage("NMEAGeneric", talker, msg_type, line, fields, checksum_ok)
              ELSE IF parse_type = "GGA"
              THEN parse_gga(talker, msg_type, line, fields, checksum_ok)
              ELSE IF parse_type = "GSA"
              THEN parse_gsa(talker, msg_type, line, fields, checksum_ok)
              ELSE IF parse_type = "RMC"
              THEN parse_rmc(talker, msg_type, line, fields, checksum_ok)
              ELSE IF parse_type = "VTG"
              THEN parse_vtg(talker, msg_type, line, fields, checksum_ok)
              ELSE IF parse_type = "GLL"
              THEN parse_gll(talker, msg_type, line, fields, checksum_ok)
              ELSE parse_txt(talker, msg_type, line, fields, checksum_ok))))))

\* Lines 350-359 of _parse_line: checksum_ok of a sentence with this body and
\* declared checksum (None: the checksum is not looked at).
checksum_ok_of(d, body, cs_hex) ==
    IF d.verify_checksum /\ ~IsNone(cs_hex)
    THEN Some(int16(Val(cs_hex)) = nmea_checksum_xor(body))
    ELSE None

\* A _parse_line that keeps a sentence whose checksum is wrong
parse_line_lenient(d, line) ==
    With(NMEA_RE_match(line), LAMBDA m :
         IF IsNone(m) THEN None
         ELSE parse_parts(d, line, split(Val(m).body, ","),
                          checksum_ok_of(d, Val(m).body, Val(m).cs)))

parse_line(d, line) ==
    With(NMEA_RE_match(line), LAMBDA m :
         IF IsNone(m) THEN None
         ELSE With(checksum_ok_of(d, Val(m).body, Val(m).cs), LAMBDA checksum_ok :
              IF ~IsNone(checksum_ok) /\ ~Val(checksum_ok) THEN None
              ELSE parse_parts(d, line, split(Val(m).body, ","), checksum_ok)))

\* lines 334-339 of feed_line: msg is stored in the decoder opened, which has
\* an epoch open
add_current(opened, msg) ==
    [ opened EXCEPT !.frames[opened.current] = add(@, msg) ]

\* A feed_line that opens an epoch for every record it stores
store_in_new_epoch(d, msg, epoch_id) ==
    add_current(begin_epoch(d, epoch_id, None), msg)

\* lines 334-339 of feed_line: store msg, opening an epoch when none is open
store(d, msg, epoch_id) ==
    add_current(IF d.current = Null THEN begin_epoch(d, epoch_id, None) ELSE d, msg)

\* A feed_line that opens the epoch before it parses the line
feed_line_opening_first(d, line0, epoch_id) ==
    With(IF d.current = Null THEN begin_epoch(d, epoch_id, None) ELSE d, LAMBDA o :
    With(parse_line(o, strip(line0)), LAMBDA msg :
         IF IsNone(msg) THEN [ d |-> o, ret |-> None ]
         ELSE [ d |-> add_current(o, Val(msg)), ret |-> msg ]))

feed_line(d, line0, epoch_id) ==
    With(strip(line0), LAMBDA line :
         IF Len(line) = 0 \/ ~startswith(line, "$") THEN [ d |-> d, ret |-> None ]
         ELSE With(parse_line(d, line), LAMBDA msg :
              IF IsNone(msg) THEN [ d |-> d, ret |-> None ]
              ELSE [ d |-> store(d, Val(msg), epoch_id), ret |-> msg ]))

-----------------------------------------------------------------------------
(* ucm_calc.py.  Angles are integers in DegUnit-ths of a degree, lengths    *)
(* integers in metres.  The transverse-Mercator series of latlon_to_utm    *)
(* (trigonometric, in floating point) is kept to its leading terms, linear *)
(* in the longitude offset from the zone's central meridian and in the     *)
(* latitude; the zone, the central meridian, the hemisphere, the false     *)
(* easting and the false northing are as in the source.                    *)

utm_zone_from_lon(lon_deg) ==
    LET lon == IF lon_deg = 180 * DegUnit THEN 180 * DegUnit - 1 ELSE lon_deg
    IN  ((lon + 180 * DegUnit) \div (6 * DegUnit)) + 1

latlon_to_utm(lat_deg, lon_deg, zone0) ==
    LET zone == IF IsNone(zone0) THEN utm_zone_from_lon(lon_deg) ELSE Val(zone0)
        hemisphere == IF lat_deg >= 0 THEN "N" ELSE "S"
        lon0_deg == (zone - 1) * 6 - 180 + 3
        easting  == ((1855 * ((lon_deg - lon0_deg * DegUnit) \div 100)) \div 10) + 500000
        northing == (1843 * (lat_deg \div 100)) \div 10
    IN  [ easting_m |-> easting,
          northing_m |-> IF hemisphere = "S" THEN northing + 10000000 ELSE northing,
          zone |-> zone, hemisphere |-> hemisphere ]

\* A converter is the record of its fields: fixed_zone and _origin_utm.
Converter == [ fixed_zone |-> fixed_zone, origin_utm |-> origin_utm ]

\* UCMConverter.__init__
NewConverter(zone) == [ fixed_zone |-> zone, origin_utm |-> None ]

ucm_from_latlon(u, lat_deg, lon_deg) ==
    LET utm == latlon_to_utm(lat_deg, lon_deg, u.fixed_zone)
    IN  [ ucm_x |-> utm.easting_m, ucm_y |-> utm.northing_m,
          zone |-> utm.zone, hemisphere |-> utm.hemisphere ]

\* A set_origin_from_latlon that keeps an origin already set
set_origin_once(u, lat_deg, lon_deg) ==
    IF IsNone(u.origin_utm)
    THEN [ u EXCEPT !.origin_utm = Some(latlon_to_utm(lat_deg, lon_deg, u.fixed_zone)) ]
    ELSE u

set_origin_from_latlon(u, lat_deg, lon_deg) ==
    [ u EXCEPT !.origin_utm = Some(latlon_to_utm(lat_deg, lon_deg, u.fixed_zone)) ]

Return(v) == [ kind |-> "return", val |-> v ]

Raise(e) == [ kind |-> "raise", val |-> << e >> ]

\* A to_local_xy that projects the point in the zone of the point (the
\* converter's fixed zone, else the zone of its longitude)
to_local_xy_rezoned(u, lat_deg, lon_deg) ==
    IF IsNone(u.origin_utm) THEN Raise("RuntimeError: Origin not set")
    ELSE Return(Some(<< latlon_to_utm(lat_deg, lon_deg, u.fixed_zone).easting_m
                          - Val(u.origin_utm).easting_m,
                        latlon_to_utm(lat_deg, lon_deg, u.fixed_zone).northing_m
                          - Val(u.origin_utm).northing_m >>))

\* The result of to_local_xy: the pair (x, y), or the RuntimeError raised.
to_local_xy(u, lat_deg, lon_deg) ==
    IF IsNone(u.origin_utm) THEN Raise("RuntimeError: Origin not set")
    ELSE LET origin == Val(u.origin_utm)
             cur == latlon_to_utm(lat_deg, lon_deg, Some(origin.zone))
         IN  Return(Some(<< cur.easting_m - origin.easting_m,
                            cur.northing_m - origin.northing_m >>))

extract_latlon_from_nmea_message(msg) ==
    LET lat == IF "lat_deg" \in DOMAIN msg THEN msg.lat_deg ELSE None
        lon == IF "lon_deg" \in DOMAIN msg THEN msg.lon_deg ELSE None
    IN  IF IsNone(lat) \/ IsNone(lon) THEN None
        ELSE Some(<< Val(lat), Val(lon) >>)

-----------------------------------------------------------------------------
(* i2c_parser.py: I2CGNSSParser.  A parser is the record of its fields     *)
(* (dec: its decoder, ucm: its converter), with the exception that ended   *)
(* the running poll, if any (raised), and the history of the run (hist).   *)

max_chunk == 32

is_gga_sentence(line0) ==
    LET line == strip(line0)
    IN  IF ~startswith(line, "$") THEN FALSE
        ELSE LET body == split_first(Tail(line), "*")
                 head == split_first(body, ",")
             IN  Len(head) >= 5 /\ slice(head, 2, 5) = "GGA"

Parser == [ dec |-> Decoder, ucm |-> Converter, origin_set |-> origin_set,
            on_ucm |-> on_ucm, on_epoch_end |-> on_epoch_end,
            drop_ff_padding |-> drop_ff_padding, line_buf |-> line_buf,
            pending_ucm |-> pending_ucm,
            last_succesful_frame |-> last_succesful_frame,
            raised |-> None, hist |-> hist ]

NoHist == [ sent |-> 0, fed |-> << >>, trace |-> << >>, returned |-> << >> ]

\* I2CGNSSParser.__init__
NewParser(zone, verify, drop_ff, ucm_handler, epoch_handler) ==
    [ dec |-> begin_epoch(NewDecoder(verify), Some(1), None),
      ucm |-> NewConverter(zone), origin_set |-> FALSE,
      on_ucm |-> ucm_handler, on_epoch_end |-> epoch_handler,
      drop_ff_padding |-> drop_ff, line_buf |-> << >>, pending_ucm |-> << >>,
      last_succesful_frame |-> Null, raised |-> None, hist |-> NoHist ]

UCMResult(epoch_id, t_recv_s, x_m, y_m, lat_deg, lon_deg) ==
    [ epoch_id |-> epoch_id, t_recv_s |-> t_recv_s, x_m |-> x_m, y_m |-> y_m,
      lat_deg |-> lat_deg, lon_deg |-> lon_deg ]

\* A _frame_to_ucm that converts no frame
frame_to_ucm_never(p, frame) == [ p |-> p, ret |-> None ]

\* _frame_to_ucm(frame): the parser after the call (p) and the result (ret).
frame_to_ucm(p, frame) ==
    IF Len(GGA(frame)) = 0 THEN [ p |-> p, ret |-> None ]
    ELSE
    LET latlon == extract_latlon_from_nmea_message(GGA(frame)[1])
    IN  IF IsNone(latlon) THEN [ p |-> p, ret |-> None ]
        ELSE
        LET lat == Val(latlon)[1]
            lon == Val(latlon)[2]
            u   == IF p.origin_set THEN p.ucm
                   ELSE set_origin_from_latlon(p.ucm, lat, lon)
            xy  == to_local_xy(u, lat, lon)
            q   == [ p EXCEPT !.ucm = u, !.origin_set = TRUE ]
        IN  IF xy.kind = "raise"
            THEN [ p |-> [ q EXCEPT !.raised = xy.val ], ret |-> None ]
            ELSE [ p |-> q,
                   ret |-> Some(UCMResult(frame.epoch_id, frame.t_recv_s,
                                          Val(xy.val)[1], Val(xy.val)[2], lat, lon)) ]

\* What poll did with one emitted line: the frame its rollover closed and
\* the one it opened (Null: none), the result computed from the closed frame
\* (ucm), whether the on_ucm handler was called with it (notified), what
\* feed_line returned (msg), the frame that was current after feed_line
\* stored the record (added), and whether the line's processing reached its
\* end (done: no exception ended it).
Entry(line, gga, closed, opened, ucm, notified, msg, added, done) ==
    [ line |-> line, gga |-> gga, closed |-> closed, opened |-> opened,
      ucm |-> ucm, notified |-> notified, msg |-> msg, added |-> added,
      done |-> done ]

Logged(p, e) == [ p EXCEPT !.hist.trace = Append(@, e) ]

\* Line 215: the line goes to the decoder.  opened and closed are the frames
\* of the rollover that came before, ucm its result.
feed(p, line, gga, closed, opened, ucm) ==
    With(feed_line(p.dec, line, None), LAMBDA f :
         Logged([ p EXCEPT !.dec = f.d ],
                Entry(line, gga, closed, opened, ucm, FALSE, f.ret,
                      IF IsNone(f.ret) THEN Null ELSE f.d.current, TRUE)))

\* Lines 211-215: a new epoch is begun and the line goes to the decoder.
begin_and_feed(p, line, prev, u) ==
    With([ p EXCEPT !.dec = begin_epoch(p.dec, None, None) ], LAMBDA b :
         feed(b, line, TRUE, prev, b.dec.current, u))

\* Lines 204-215, for a result u of the closed frame prev: on_ucm is called
\* when registered.  The handler returns nothing; poll reads x_m of what it
\* returned (and then calls the list last_succesful_ucm), which raises.
deliver(p, line, prev, u) ==
    IF IsNone(u) THEN begin_and_feed(p, line, prev, u)
    ELSE IF ~p.on_ucm
    THEN begin_and_feed([ p EXCEPT !.pending_ucm = Append(@, Val(u)) ], line, prev, u)
    ELSE Logged([ p EXCEPT !.raised = Some("AttributeError") ],
                Entry(line, TRUE, prev, Null, u, TRUE, None, Null, FALSE))

\* Lines 197-215, the frame prev closed: on_epoch_end is called when
\* registered, the result of the frame computed and delivered.
rollover(p, line, prev) ==
    With(frame_to_ucm(IF p.on_epoch_end
                      THEN [ p EXCEPT !.last_succesful_frame = prev ] ELSE p,
                      p.dec.frames[prev]),
         LAMBDA r :
         IF ~IsNone(r.p.raised)
         THEN Logged(r.p, Entry(line, TRUE, prev, Null, None, FALSE, None, Null, FALSE))
         ELSE deliver(r.p, line, prev, r.ret))

\* A line processing that rolls no epoch over: every line goes to the
\* decoder as it is.
process_line_plain(p, line) == feed(p, line, FALSE, Null, Null, None)

\* Lines 195-215: what poll does with a complete line.
process_line(p, line) ==
    IF ~is_gga_sentence(line) THEN feed(p, line, FALSE, Null, Null, None)
    ELSE IF p.dec.current = Null
    THEN deliver([ p EXCEPT !.dec = end_epoch(p.dec).d ], line, Null, None)
    ELSE rollover([ p EXCEPT !.dec = end_epoch(p.dec).d ], line, end_epoch(p.dec).ret)

\* The position of the first line feed of data from lo on; Len(data) when
\* there is none.
next_feed(data, lo) ==
    IF \E i \in lo..Len(data) : data[i] = LF
    THEN MinOf({ i \in lo..Len(data) : data[i] = LF })
    ELSE Len(data)

\* Lines 189-215 for the bytes lo..hi of data, of which only the last can be
\* a line feed: they go to the line buffer; at the line feed the buffer is
\* decoded and cleared and the line processed.
take(p, data, lo, hi) ==
    IF data[hi] = LF
    THEN process_line([ p EXCEPT !.line_buf = << >>,
                                 !.hist.fed = @ \o SubSeq(data, lo, hi) ],
                      decode_ascii(p.line_buf \o SubSeq(data, lo, hi)))
    ELSE [ p EXCEPT !.line_buf = @ \o SubSeq(data, lo, hi),
                    !.hist.fed = @ \o SubSeq(data, lo, hi) ]

\* Lines 188-215: for b in data[lo..], line by line.  An exception ends the
\* loop: the bytes after it are not looked at.
RECURSIVE loop(_, _, _)
loop(p, data, lo) ==
    IF lo > Len(data) \/ ~IsNone(p.raised) THEN p
    ELSE With(next_feed(data, lo), LAMBDA hi :
              loop(take(p, data, lo, hi), data, hi + 1))

\* read_stream(n)[.] of the bytes ready on the bus
read_stream(p, w, n) ==
    LET data == SubSeq(w, 1, n)
    IN  IF p.drop_ff_padding THEN SelectSeq(data, LAMBDA b : b # FILLER) ELSE data

Min(a, b) == IF a <= b THEN a ELSE b

\* poll() with the bus open, when the receiver reports avail bytes of w: the
\* parser after the call (p), what is left on the bus (wire) and what poll
\* returned or raised (ret).
\* Lines 186-220: the loop over the bytes read, and what poll returns.
consume(p, data, rest) ==
    IF Len(data) = 0 THEN [ p |-> p, wire |-> rest, ret |-> Return(Some(0)) ]
    ELSE With(loop(p, data, 1), LAMBDA q :
              [ p |-> [ q EXCEPT !.raised = None ], wire |-> rest,
                ret |-> IF IsNone(q.raised) THEN Return(Some(Len(data)))
                        ELSE Raise(Val(q.raised)) ])

\* A poll that emits the complete lines of its chunk and drops the partial
\* line left in the buffer
poll_dropping_partial(p, avail, w) ==
    IF avail <= 0 THEN [ p |-> p, wire |-> w, ret |-> Return(Some(0)) ]
    ELSE With(consume(p, read_stream(p, w, Min(avail, max_chunk)),
                      SubSeq(w, Min(avail, max_chunk) + 1, Len(w))),
              LAMBDA r : [ r EXCEPT !.p.line_buf = << >> ])

poll(p, avail, w) ==
    IF avail <= 0 THEN [ p |-> p, wire |-> w, ret |-> Return(Some(0)) ]
    ELSE consume(p, read_stream(p, w, Min(avail, max_chunk)),
                 SubSeq(w, Min(avail, max_chunk) + 1, Len(w)))

-----------------------------------------------------------------------------
(* The state of the program is a parser p *)

SetDecoder(d) ==
    /\ verify_checksum' = d.verify_checksum
    /\ aliases' = d.aliases
    /\ epoch_counter' = d.epoch_counter
    /\ current' = d.current
    /\ frames' = d.frames
    /\ now' = d.now

SetConverter(u) ==
    /\ fixed_zone' = u.fixed_zone
    /\ origin_utm' = u.origin_utm

SetParser(p) ==
    /\ SetDecoder(p.dec)
    /\ SetConverter(p.ucm)
    /\ origin_set' = p.origin_set
    /\ on_ucm' = p.on_ucm
    /\ on_epoch_end' = p.on_epoch_end
    /\ drop_ff_padding' = p.drop_ff_padding
    /\ line_buf' = p.line_buf
    /\ pending_ucm' = p.pending_ucm
    /\ last_succesful_frame' = p.last_succesful_frame
    /\ hist' = p.hist

IsParser(p) ==
    /\ verify_checksum = p.dec.verify_checksum
    /\ aliases = p.dec.aliases
    /\ epoch_counter = p.dec.epoch_counter
    /\ current = p.dec.current
    /\ frames = p.dec.frames
    /\ now = p.dec.now
    /\ fixed_zone = p.ucm.fixed_zone
    /\ origin_utm = p.ucm.origin_utm
    /\ origin_set = p.origin_set
    /\ on_ucm = p.on_ucm
    /\ on_epoch_end = p.on_epoch_end
    /\ drop_ff_padding = p.drop_ff_padding
    /\ line_buf = p.line_buf
    /\ pending_ucm = p.pending_ucm
    /\ last_succesful_frame = p.last_succesful_frame
    /\ hist = p.hist

parser_vars == << verify_checksum, aliases, epoch_counter, current, frames, now,
                  fixed_zone, origin_utm, origin_set, on_ucm, on_epoch_end,
                  drop_ff_padding, line_buf, pending_ucm, last_succesful_frame,
                  hist >>

Called(op, args) == [ op |-> op, args |-> args ]

Raised == ret.kind = "raise"

-----------------------------------------------------------------------------
(* The pipeline: a parser built with fixed_zone = 52 is opened and polled  *)
(* (GPS.py, main) while the receiver puts sentences on the bus.  An        *)
(* exception that leaves poll ends the loop, and leaving the with block    *)
(* closes the bus.                                                         *)

MaxLines == 4

Sentences ==
    { "$GNRMC,1,A*25\r\n",
      "$GNGGA,1,4807.038,N,01131.000,E,1*71\r\n",
      "$GNGGA,2,4806.5,N,01130.5,E\n",
      "$GNGGA,3,,,,,0*00\n",
      "$GNGGAX,1\n" }

Init ==
    /\ \E verify \in BOOLEAN, ucm_handler \in BOOLEAN, epoch_handler \in BOOLEAN :
          IsParser(NewParser(Some(52), verify, FALSE, ucm_handler, epoch_handler))
    /\ bus_open = FALSE
    /\ wire = << >>
    /\ call = Called("__init__", << >>)
    /\ ret = Return(None)

\* I2CGNSSParser.open
Open ==
    /\ ~Raised /\ ~bus_open
    /\ bus_open' = TRUE
    /\ call' = Called("open", << >>)
    /\ ret' = Return(None)
    /\ UNCHANGED << parser_vars, wire >>

\* I2CGNSSParser.close, as __exit__ calls it
Close ==
    /\ Raised /\ bus_open
    /\ bus_open' = FALSE
    /\ UNCHANGED << parser_vars, wire, call, ret >>

\* The receiver has another sentence ready, the one before it read.
Arrive ==
    /\ ~Raised
    /\ hist.sent < MaxLines
    /\ wire = << >>
    /\ \E s \in Sentences :
          /\ wire' = wire \o encode_ascii(s)
          /\ hist' = [ hist EXCEPT !.sent = @ + 1 ]
    /\ UNCHANGED << verify_checksum, aliases, epoch_counter, current, frames, now,
                    fixed_zone, origin_utm, origin_set, on_ucm, on_epoch_end,
                    drop_ff_padding, line_buf, pending_ucm, last_succesful_frame,
                    bus_open, call, ret >>

\* The state after a poll with the result r
Polled(r) ==
    /\ SetParser(r.p)
    /\ wire' = r.wire
    /\ ret' = r.ret

\* I2CGNSSParser.poll, the receiver reporting avail bytes
PollWith(avail) ==
    /\ ~Raised
    /\ call' = Called("poll", << avail >>)
    /\ IF ~bus_open
       THEN /\ ret' = Raise("RuntimeError")
            /\ UNCHANGED << parser_vars, wire >>
       ELSE Polled(poll(Parser, avail, wire))
    /\ UNCHANGED bus_open

Poll == \E avail \in { 0, Len(wire) } : PollWith(avail)

Next == Open \/ Close \/ Arrive \/ Poll

Spec == Init /\ [][Next]_vars

-----------------------------------------------------------------------------
(* The aggregator on its own: an NMEADecoder is constructed and its        *)
(* methods are called in any order.  The other variables keep the values   *)
(* of a parser that is never polled.                                       *)

MaxCalls == 3

\* The lines fed: a sentence of a registered kind with a right and with a
\* wrong checksum, a position fix, a fix whose fields do not parse, a kind
\* with no parser, and lines the decoder drops.
Lines ==
    { "$GNRMC,1,A*25\r\n",
      "$GNRMC,1,A*26",
      "$GNGGA,1,4807.038,N,01131.000,E,1*71",
      "$GNGGA,x,48.y,N,z,E,q",
      "$GNZDA,1",
      "$GNGG,1",
      "$GNGGA,1*7",
      "GNGGA,1",
      " \r\n" }

decoder_vars == << verify_checksum, aliases, epoch_counter, current, frames, now >>

rest_vars == << fixed_zone, origin_utm, origin_set, on_ucm, on_epoch_end,
               drop_ff_padding, line_buf, pending_ucm, last_succesful_frame,
               bus_open, wire >>

InitDecoder ==
    /\ \E verify \in BOOLEAN :
          /\ IsParser([ NewParser(None, verify, FALSE, FALSE, FALSE)
                          EXCEPT !.dec = NewDecoder(verify) ])
          /\ call = Called("NMEADecoder", << verify >>)
    /\ bus_open = FALSE
    /\ wire = << >>
    /\ ret = Return(None)

\* decoder.begin_epoch(epoch_id): returns the new frame
BeginEpoch ==
    /\ hist.sent < MaxCalls
    /\ \E epoch_id \in { None, Some(7) } :
          LET d == begin_epoch(Decoder, epoch_id, None)
          IN  /\ SetDecoder(d)
              /\ call' = Called("begin_epoch", << epoch_id >>)
              /\ ret' = Return(d.current)
    /\ hist' = [ hist EXCEPT !.sent = @ + 1 ]
    /\ UNCHANGED rest_vars

\* decoder.end_epoch(): returns the frame that was open, or None
EndEpoch ==
    /\ hist.sent < MaxCalls
    /\ LET e == end_epoch(Decoder)
       IN  /\ SetDecoder(e.d)
           /\ ret' = Return(e.ret)
           /\ hist' = [ hist EXCEPT !.sent = @ + 1,
                                    !.returned = IF e.ret = Null THEN @
                                                 ELSE Append(@, e.ret) ]
    /\ call' = Called("end_epoch", << >>)
    /\ UNCHANGED rest_vars

\* The state after a feed_line with the result f
Fed(f) ==
    /\ SetDecoder(f.d)
    /\ ret' = Return(f.ret)

\* decoder.feed_line(line, epoch_id=epoch_id): returns the record, or None
FeedLine ==
    /\ hist.sent < MaxCalls
    /\ \E line \in Lines, epoch_id \in { None, Some(5) } :
          /\ Fed(feed_line(Decoder, line, epoch_id))
          /\ call' = Called("feed_line", << line, epoch_id >>)
    /\ hist' = [ hist EXCEPT !.sent = @ + 1 ]
    /\ UNCHANGED rest_vars

NextDecoder == BeginEpoch \/ EndEpoch \/ FeedLine

SpecDecoder == InitDecoder /\ [][NextDecoder]_vars

-----------------------------------------------------------------------------
(* The aggregator with aliases: an NMEADecoder is constructed, aliases are *)
(* registered and lines are fed, in any order.                             *)

MaxAliasOps == 3

\* The kind tags aliased and the kinds they are aliased to (ZDA has no
\* parser in the registry).
AliasTags == { "ZDA", "GGA" }

AliasTargets == { "GGA", "RMC", "ZDA" }

\* The lines fed: a ZDA sentence with a position in the places where a GGA
\* sentence has it, a position fix, a sentence of a kind without parser,
\* one that declares a wrong checksum (its body XORs to 4B) and one with a
\* short header.
AliasLines ==
    { "$GNZDA,1,4807.038,N,01131.000,E",
      "$GNGGA,1,4807.038,N,01131.000,E,1*71",
      "$GNXYZ,a,b\r\n",
      "$GNZDA,1*00",
      "$GNZ,1" }

\* decoder.register_alias(msg_type, target_type)
RegisterAlias ==
    /\ hist.sent < MaxAliasOps
    /\ \E msg_type \in AliasTags, target_type \in AliasTargets :
          /\ SetDecoder(register_alias(Decoder, msg_type, target_type))
          /\ call' = Called("register_alias", << msg_type, target_type >>)
    /\ ret' = Return(None)
    /\ hist' = [ hist EXCEPT !.sent = @ + 1 ]
    /\ UNCHANGED rest_vars

\* decoder.feed_line(line), the decoder holding the aliases registered
FeedAliased ==
    /\ hist.sent < MaxAliasOps
    /\ \E line \in AliasLines :
          /\ Fed(feed_line(Decoder, line, None))
          /\ call' = Called("feed_line", << line, None >>)
    /\ hist' = [ hist EXCEPT !.sent = @ + 1 ]
    /\ UNCHANGED rest_vars

NextAlias == RegisterAlias \/ FeedAliased

SpecAlias == InitDecoder /\ [][NextAlias]_vars

-----------------------------------------------------------------------------
(* The decoding of a latitude or longitude: parse_lat_lon is called with   *)
(* the value and hemisphere fields of a sentence, as the parsers of GGA,   *)
(* RMC and GLL call it.                                                    *)

MaxParses == 2

\* Value fields: empty, a latitude (ddmm.mmm), a longitude (dddmm.mmm), one
\* without decimal point, one with a letter, and one with degrees and a
\* fraction but no minutes.
LatLonValues == { "", "4807.038", "01131.000", "4807", "48.y", "48.5" }

\* Hemisphere fields: empty, the four hemispheres, and another letter.
Hemispheres == { "", "N", "S", "E", "W", "X" }

\* parse_lat_lon(nmea_value, hemi)
ParseLatLon ==
    /\ hist.sent < MaxParses
    /\ \E nmea_value \in LatLonValues, hemi \in Hemispheres :
          /\ call' = Called("parse_lat_lon", << nmea_value, hemi >>)
          /\ ret' = Return(parse_lat_lon(nmea_value, hemi))
    /\ hist' = [ hist EXCEPT !.sent = @ + 1 ]
    /\ UNCHANGED << decoder_vars, rest_vars >>

NextLatLon == ParseLatLon

SpecLatLon == InitDecoder /\ [][NextLatLon]_vars

-----------------------------------------------------------------------------
(* The converter of a parser: the methods of UCMConverter are called       *)
(* directly, and the parser converts frames it is handed (_frame_to_ucm).  *)
(* hist.trace lists the origin as it was before each call.                 *)

MaxOps == 3

\* Latitude and longitude of three places, in DegUnit-ths of a degree: one
\* in zone 32, one in zone 52, one in zone 34 south of the equator.
Points ==
    { << 2887038, 691000 >>, << 2250000, 7620000 >>, << 0 - 2034000, 1104000 >> }

\* FixData sentences: two with a position (in zone 32 and in zone 52), one
\* without.
Fixes ==
    { "$GNGGA,1,4807.038,N,01131.000,E,1*71",
      "$GNGGA,2,3730.000,N,12700.000,E,1",
      "$GNGGA,3,,,,,0" }

\* A frame whose only record is the sentence s
FrameOf(s) == add(EpochFrame(1, 0), Val(parse_line(Decoder, s)))

InitUCM ==
    /\ \E zone \in { None, Some(52) } :
          /\ IsParser(NewParser(zone, FALSE, FALSE, FALSE, FALSE))
          /\ call = Called("UCMConverter", << zone >>)
    /\ bus_open = FALSE
    /\ wire = << >>
    /\ ret = Return(None)

ucm_rest_vars == << verify_checksum, aliases, epoch_counter, current, frames, now,
                   on_ucm, on_epoch_end, drop_ff_padding, line_buf, pending_ucm,
                   last_succesful_frame, bus_open, wire >>

\* ucm.set_origin_from_latlon(lat, lon)
SetOrigin ==
    /\ hist.sent < MaxOps
    /\ \E pt \in Points :
          /\ SetConverter(set_origin_from_latlon(Converter, pt[1], pt[2]))
          /\ call' = Called("set_origin_from_latlon", pt)
    /\ ret' = Return(None)
    /\ hist' = [ hist EXCEPT !.sent = @ + 1, !.trace = Append(@, origin_utm) ]
    /\ UNCHANGED << ucm_rest_vars, origin_set >>

\* ucm.to_local_xy(lat, lon)
ToLocalXY ==
    /\ hist.sent < MaxOps
    /\ \E pt \in Points :
          /\ ret' = to_local_xy(Converter, pt[1], pt[2])
          /\ call' = Called("to_local_xy", pt)
    /\ hist' = [ hist EXCEPT !.sent = @ + 1, !.trace = Append(@, origin_utm) ]
    /\ UNCHANGED << ucm_rest_vars, origin_set, fixed_zone, origin_utm >>

\* The state after _frame_to_ucm with the result r
Converted(r) ==
    /\ SetParser([ r.p EXCEPT !.hist.sent = @ + 1,
                              !.hist.trace = Append(@, origin_utm) ])
    /\ ret' = IF IsNone(r.p.raised) THEN Return(r.ret) ELSE Raise(Val(r.p.raised))

\* parser._frame_to_ucm(frame), for a frame that holds one FixData record
FrameToUcm ==
    /\ hist.sent < MaxOps
    /\ \E s \in Fixes :
          /\ Converted(frame_to_ucm(Parser, FrameOf(s)))
          /\ call' = Called("_frame_to_ucm", << s >>)
    /\ UNCHANGED << bus_open, wire >>

NextUCM == SetOrigin \/ ToLocalXY \/ FrameToUcm

SpecUCM == InitUCM /\ [][NextUCM]_vars

-----------------------------------------------------------------------------
(* The framer: an opened parser is polled while single bytes arrive, and   *)
(* the receiver reports any number of the bytes it holds.                  *)

MaxBytes == 5

\* A line feed, a letter and the filler byte (not ASCII)
Bytes == { LF, 97, FILLER }

InitFramer ==
    /\ \E drop_ff \in BOOLEAN :
          IsParser(NewParser(Some(52), FALSE, drop_ff, FALSE, FALSE))
    /\ bus_open = TRUE
    /\ wire = << >>
    /\ call = Called("open", << >>)
    /\ ret = Return(None)

\* The receiver has another byte ready.
Put ==
    /\ hist.sent < MaxBytes
    /\ \E b \in Bytes : wire' = Append(wire, b)
    /\ hist' = [ hist EXCEPT !.sent = @ + 1 ]
    /\ UNCHANGED << verify_checksum, aliases, epoch_counter, current, frames, now,
                    fixed_zone, origin_utm, origin_set, on_ucm, on_epoch_end,
                    drop_ff_padding, line_buf, pending_ucm, last_succesful_frame,
                    bus_open, call, ret >>

\* I2CGNSSParser.poll, the receiver reporting some of the bytes it holds
PollSome ==
    /\ \E avail \in 1..Len(wire) :
          /\ Polled(poll(Parser, avail, wire))
          /\ call' = Called("poll", << avail >>)
    /\ UNCHANGED bus_open

NextFramer == Put \/ PollSome

SpecFramer == InitFramer /\ [][NextFramer]_vars

-----------------------------------------------------------------------------
(* Properties of the aggregator (SpecDecoder).  A step is the call named   *)
(* by call'; hist.returned lists the frames end_epoch has returned.        *)

Returned == { hist.returned[i] : i \in 1..Len(hist.returned) }

\* C3, as the specification states it: begin_epoch with an epoch open is a
\* no-op that leaves the open frame current, the frames and the epoch
\* counter as they are.
C3_BeginIsNoOpWhenOpen ==
    [][ (call'.op = "begin_epoch" /\ current # Null)
        => /\ current' = current
           /\ frames' = frames
           /\ epoch_counter' = epoch_counter ]_vars

\* C3, as the code has it: every begin_epoch, with an epoch open or not,
\* creates a frame without records and makes it the current one; the frame
\* has the id supplied, else the counter advanced by one (the counter
\* advances only then); the frames that existed, the one that was open
\* included, keep their ids, timestamps and records.
C3_BeginAlwaysOpensNewFrame ==
    [][ call'.op = "begin_epoch"
        => /\ Len(frames') = Len(frames) + 1
           /\ current' = Len(frames')
           /\ current' # current
           /\ frames'[current'].messages_by_type = << >>
           /\ frames'[current'].epoch_id =
                 (IF IsNone(call'.args[1]) THEN epoch_counter + 1
                  ELSE Val(call'.args[1]))
           /\ epoch_counter' =
                 (IF IsNone(call'.args[1]) THEN epoch_counter + 1 ELSE epoch_counter)
           /\ \A i \in 1..Len(frames) : frames'[i] = frames[i] ]_vars

\* begin_epoch has been called while a frame that holds records was open:
\* the frame before the new one was never returned by end_epoch.
C3_BegunWhileOpen ==
    /\ call.op = "begin_epoch"
    /\ Len(frames) >= 2
    /\ current = Len(frames)
    /\ (Len(frames) - 1) \notin Returned
    /\ frames[Len(frames) - 1].messages_by_type # << >>

\* C4: end_epoch returns the frame that was open and leaves no epoch open;
\* it returns no frame a second time (with no epoch open it returns None);
\* and no call changes a frame that end_epoch has returned.
C4_CloseDetaches ==
    [][ /\ call'.op = "end_epoch"
           => /\ ret' = Return(current)
              /\ current' = Null
              /\ current # Null => current \notin Returned
              /\ hist'.returned = IF current = Null THEN hist.returned
                                  ELSE Append(hist.returned, current)
        /\ \A f \in Returned : f \in 1..Len(frames') /\ frames'[f] = frames[f] ]_vars

\* feed_line has stored a record while a frame that holds records, and that
\* end_epoch has returned, is no longer the current one.
C4_FedAfterClose ==
    /\ call.op = "feed_line"
    /\ ~IsNone(ret.val)
    /\ \E f \in Returned : frames[f].messages_by_type # << >> /\ f # current

\* The line matches the grammar and declares a checksum other than the XOR
\* of its body.
DeclaresWrongChecksum(line) ==
    With(NMEA_RE_match(strip(line)), LAMBDA m :
         /\ ~IsNone(m)
         /\ ~IsNone(Val(m).cs)
         /\ int16(Val(Val(m).cs)) # nmea_checksum_xor(Val(m).body))

\* C7: with checksum verification on, feed_line of a line that matches the
\* grammar and declares a checksum other than the XOR of its body returns
\* None and adds nothing: frames, current frame and counter stay as they are.
C7_ChecksumMismatchDrops ==
    [][ (call'.op = "feed_line" /\ verify_checksum
         /\ DeclaresWrongChecksum(call'.args[1]))
        => /\ ret' = Return(None)
           /\ UNCHANGED decoder_vars ]_vars

\* The RMC sentence that declares 26 (its body XORs to 25) has been fed to a
\* verifying decoder that holds a frame with a record.
C7_MismatchFed ==
    /\ call.op = "feed_line"
    /\ call.args[1] = "$GNRMC,1,A*26"
    /\ verify_checksum
    /\ DeclaresWrongChecksum(call.args[1])
    /\ current # Null /\ frames[current].messages_by_type # << >>

\* The empty line, the line without '$', the line outside the grammar and
\* the line with a short header
DroppedLines == { " \r\n", "GNGGA,1", "$GNGGA,1*7", "$GNGG,1" }

\* C8: feed_line never raises; a line it drops (it returns None) leaves the
\* decoder as it was: no epoch opened, counter and frames untouched.  The
\* empty line, the line without '$', the line outside the grammar and the
\* line with a short header are dropped; the fix with unparsable fields is
\* a record whose latitude and longitude are absent.
C8_MalformedIsSilentDrop ==
    [][ call'.op = "feed_line"
        => /\ ret'.kind = "return"
           /\ IsNone(ret'.val) => UNCHANGED decoder_vars
           /\ call'.args[1] \in DroppedLines => IsNone(ret'.val)
           /\ call'.args[1] = "$GNGGA,x,48.y,N,z,E,q"
              => /\ ~IsNone(ret'.val)
                 /\ IsNone(Val(ret'.val).lat_deg) /\ IsNone(Val(ret'.val).lon_deg) ]_vars

\* A line with a short header has been fed, with an epoch id, to a decoder
\* that had no epoch open: none was opened.
C8_DroppedWithNoEpochOpen ==
    /\ call = Called("feed_line", << "$GNGG,1", Some(5) >>)
    /\ IsNone(ret.val)
    /\ current = Null
    /\ hist.sent >= 2

-----------------------------------------------------------------------------
(* Properties of the converter (SpecUCM) *)

\* C5, as the specification states it: once an origin is set, a later
\* set_origin_from_latlon leaves it as it is.
C5_OriginSetOnce ==
    [][ (call'.op = "set_origin_from_latlon" /\ ~IsNone(origin_utm))
        => origin_utm' = origin_utm ]_vars

\* C5, as the code has it: every set_origin_from_latlon, the first and the
\* later ones, makes the projection of its own latitude and longitude the
\* origin.  It is the parser that sets the origin once: _frame_to_ucm leaves
\* the origin alone when _origin_set holds; and to_local_xy never sets it.
C5_OriginFollowsEachCall ==
    [][ /\ call'.op = "set_origin_from_latlon"
           => origin_utm' = Some(latlon_to_utm(call'.args[1], call'.args[2], fixed_zone))
        /\ (call'.op = "_frame_to_ucm" /\ origin_set)
           => (origin_utm' = origin_utm /\ origin_set')
        /\ call'.op = "to_local_xy" => origin_utm' = origin_utm ]_vars

\* set_origin_from_latlon has replaced an origin that was set.
C5_OriginReplaced ==
    /\ call.op = "set_origin_from_latlon"
    /\ Len(hist.trace) >= 1
    /\ ~IsNone(hist.trace[Len(hist.trace)])
    /\ hist.trace[Len(hist.trace)] # origin_utm

\* C6: to_local_xy raises the origin-not-set error when no origin is set and
\* leaves the converter as it was; with an origin it returns the offsets of
\* the point, projected in the zone of the origin, from the origin.
C6_LocalXY ==
    [][ call'.op = "to_local_xy"
        => /\ UNCHANGED << origin_utm, fixed_zone, origin_set >>
           /\ IF IsNone(origin_utm)
              THEN ret' = Raise("RuntimeError: Origin not set")
              ELSE ret' = Return(Some(
                     << latlon_to_utm(call'.args[1], call'.args[2],
                                      Some(Val(origin_utm).zone)).easting_m
                          - Val(origin_utm).easting_m,
                        latlon_to_utm(call'.args[1], call'.args[2],
                                      Some(Val(origin_utm).zone)).northing_m
                          - Val(origin_utm).northing_m >>)) ]_vars

\* to_local_xy has projected a point whose longitude lies in another zone
\* than the origin's, on a converter without a fixed zone.
C6_ProjectedAcrossZones ==
    /\ call.op = "to_local_xy"
    /\ IsNone(fixed_zone)
    /\ ~IsNone(origin_utm)
    /\ ret.kind = "return"
    /\ utm_zone_from_lon(call.args[2]) # Val(origin_utm).zone

-----------------------------------------------------------------------------
(* Properties of the framer (SpecFramer).  hist.fed lists the bytes the    *)
(* loop of poll has been given, in all the polls so far; hist.trace has an *)
(* entry for every line emitted.                                           *)

\* The parser as constructed, with the configuration of this one
Fresh == NewParser(fixed_zone, verify_checksum, drop_ff_padding, on_ucm, on_epoch_end)

\* The lines of a trace
Emitted(trace) == [ k \in 1..Len(trace) |-> trace[k].line ]

\* The position of the last line feed of bytes, 0 when there is none
LastFeed(bytes) ==
    IF \E i \in 1..Len(bytes) : bytes[i] = LF
    THEN MaxOf({ i \in 1..Len(bytes) : bytes[i] = LF })
    ELSE 0

\* C9: however the bytes were split into the chunks of the polls, the lines
\* emitted and the buffer are those of one chunk that holds all the bytes;
\* every emitted line ends with a line feed and holds no other; the buffer
\* holds the bytes after the last line feed (none after an emission that
\* ends the bytes).
C9_FramingIgnoresChunking ==
    /\ Emitted(hist.trace) = Emitted(loop(Fresh, hist.fed, 1).hist.trace)
    /\ line_buf = loop(Fresh, hist.fed, 1).line_buf
    /\ \A k \in 1..Len(hist.trace) :
          /\ Places(hist.trace[k].line, "\n") = { Len(hist.trace[k].line) }
          /\ Len(hist.trace[k].line) >= 1
    /\ line_buf = SubSeq(hist.fed, LastFeed(hist.fed) + 1, Len(hist.fed))

\* A line of three bytes has been emitted by a poll that read one byte, and
\* it is all that was fed: its bytes came in more than one chunk.
C9_LineAcrossChunks ==
    /\ call = Called("poll", << 1 >>)
    /\ Len(hist.trace) = 1
    /\ Len(hist.trace[1].line) = 3
    /\ Len(hist.fed) = 3
    /\ line_buf = << >>

-----------------------------------------------------------------------------
(* Properties of the pipeline (Spec).  hist.trace has an entry for every   *)
(* line poll has emitted.                                                  *)

\* The record the decoder makes of a line (None: it drops the line)
RecordOf(line) == parse_line(Decoder, strip(line))

\* The line is a valid FixData sentence: the decoder makes a GGA record of it.
IsFixData(line) ==
    /\ is_gga_sentence(line)
    /\ ~IsNone(RecordOf(line))
    /\ Val(RecordOf(line)).cls = "NMEAGGA"

\* The line is a sentence of another kind that the decoder records.
IsNonFix(line) ==
    /\ ~is_gga_sentence(line)
    /\ ~IsNone(RecordOf(line))

InFrame(msg, frame) == \E i \in 1..Len(records(frame)) : records(frame)[i] = msg

\* C1: for every emitted line that is a valid FixData sentence, poll has
\* closed the open epoch, opened a new one, which is not the one it closed,
\* and added the record of the line to the epoch it opened.
C1_RolloverOrdering ==
    \A k \in 1..Len(hist.trace) :
       IsFixData(hist.trace[k].line)
       => /\ hist.trace[k].opened # Null
          /\ hist.trace[k].opened # hist.trace[k].closed
          /\ hist.trace[k].added = hist.trace[k].opened
          /\ ~IsNone(hist.trace[k].msg)
          /\ InFrame(Val(hist.trace[k].msg), frames[hist.trace[k].opened])

\* C2: of two frames, the one opened later has the larger epoch id.
C2_EpochIdsIncrease ==
    \A i, j \in 1..Len(frames) : i < j => frames[i].epoch_id < frames[j].epoch_id

\* The first n lines emitted are, in turn, a sentence of another kind and a
\* FixData sentence.
Scenario(n) ==
    /\ Len(hist.trace) >= n
    /\ \A k \in 1..n : IF k % 2 = 1 THEN IsNonFix(hist.trace[k].line)
                       ELSE IsFixData(hist.trace[k].line)

\* C10, as the specification states it: after a non-fix, a FixData, a
\* non-fix and a FixData sentence, the epoch closed first holds the first
\* three of them in their order.
C10_FirstClosedHoldsThree ==
    Scenario(4)
    => /\ hist.trace[2].closed # Null
       /\ records(frames[hist.trace[2].closed])
            = << Val(RecordOf(hist.trace[1].line)), Val(RecordOf(hist.trace[2].line)),
                 Val(RecordOf(hist.trace[3].line)) >>

\* C10, as the code has it: the epoch closed first, by the first FixData
\* sentence, holds the first non-fix sentence alone; the first FixData
\* sentence and the non-fix sentence after it are the records, in that
\* order, of the epoch that sentence opened, which the second FixData
\* sentence closes.
C10_FirstClosedHoldsFirstLine ==
    /\ Scenario(2)
       => /\ hist.trace[2].closed # Null
          /\ records(frames[hist.trace[2].closed])
               = << Val(RecordOf(hist.trace[1].line)) >>
    /\ Scenario(4)
       => /\ hist.trace[4].closed # Null
          /\ hist.trace[4].closed = hist.trace[2].opened
          /\ hist.trace[4].closed # hist.trace[2].closed
          /\ records(frames[hist.trace[4].closed])
               = << Val(RecordOf(hist.trace[2].line)),
                    Val(RecordOf(hist.trace[3].line)) >>

\* The four sentences have been emitted and the last one processed to its end.
C10_ScenarioDone ==
    /\ Scenario(4)
    /\ Len(hist.trace) = 4
    /\ hist.trace[4].done

-----------------------------------------------------------------------------
(* Further properties of the aggregator (SpecDecoder) *)

\* C11: a feed_line that returns a record, with no epoch open, opens a frame
\* (with the epoch id supplied, else the counter advanced by one) whose only
\* record is the one returned; with an epoch open it opens no frame, advances
\* no counter and the open frame gains the record and no other.  The frames
\* that are not current stay as they are.
C11_AutoOpenOnFirstRecord ==
    [][ (call'.op = "feed_line" /\ ~IsNone(ret'.val))
        => /\ \A i \in 1..Len(frames) : i # current => frames'[i] = frames[i]
           /\ IF current = Null
              THEN /\ Len(frames') = Len(frames) + 1
                   /\ current' = Len(frames')
                   /\ frames'[current'].epoch_id =
                         (IF IsNone(call'.args[2]) THEN epoch_counter + 1
                          ELSE Val(call'.args[2]))
                   /\ epoch_counter' =
                         (IF IsNone(call'.args[2]) THEN epoch_counter + 1
                          ELSE epoch_counter)
                   /\ records(frames'[current']) = << Val(ret'.val) >>
              ELSE /\ Len(frames') = Len(frames)
                   /\ current' = current
                   /\ epoch_counter' = epoch_counter
                   /\ frames'[current].epoch_id = frames[current].epoch_id
                   /\ Len(records(frames'[current])) = Len(records(frames[current])) + 1
                   /\ InFrame(Val(ret'.val), frames'[current]) ]_vars

\* feed_line, given the epoch id 5 after an earlier epoch was closed, has
\* opened the epoch 5 with the record it returned.
C11_OpenedByRecord ==
    /\ call.op = "feed_line"
    /\ call.args[2] = Some(5)
    /\ ~IsNone(ret.val)
    /\ Len(frames) >= 2
    /\ current = Len(frames)
    /\ frames[current].epoch_id = 5
    /\ records(frames[current]) = << Val(ret.val) >>
    /\ Returned # { }

-----------------------------------------------------------------------------
(* Properties of the aggregator with aliases (SpecAlias) *)

\* The header of a line (the text between '$' and the first ',' or '*') and
\* its kind tag (the header after the two characters of the talker)
HeaderOf(line) == split_first(split_first(Tail(strip(line)), "*"), ",")

TagOf(line) == SubSeq(HeaderOf(line), 3, Len(HeaderOf(line)))

\* The class of the records that the parser of a kind builds
ClassOf(kind) ==
    IF kind \in { "GGA", "GSA", "RMC", "VTG", "GLL", "TXT" }
    THEN "NMEA" \o kind
    ELSE "NMEAGeneric"

Last(seq) == seq[Len(seq)]

\* The kind a tag is aliased to in the decoder, the tag itself when it has
\* no alias
AliasOf(tag) == IF tag \in DOMAIN aliases THEN aliases[tag] ELSE tag

\* The records stored under a tag in the open frame (none: no frame is open)
StoredUnder(fs, cur, tag) == IF cur = Null THEN << >> ELSE get(fs[cur], tag)

BuiltIn == { "GGA", "GSA", "RMC", "VTG", "GLL", "TXT" }

\* The line matches the grammar and the kind its tag is aliased to (the tag
\* itself when it has no alias) has no parser.
Unregistered(line) ==
    /\ ~IsNone(NMEA_RE_match(strip(line)))
    /\ AliasOf(TagOf(line)) \notin BuiltIn

\* The record returned is a Generic record of the line: its raw text is the
\* line without the white space around it, its talker and tag are those of
\* the header, its fields the parts of the body after the header.
GenericRecordOf(msg, line) ==
    /\ msg.cls = "NMEAGeneric"
    /\ msg.raw = strip(line)
    /\ msg.talker = SubSeq(HeaderOf(line), 1, 2)
    /\ msg.msg_type = TagOf(line)
    /\ msg.fields = Tail(split(Val(NMEA_RE_match(strip(line))).body, ","))

\* C13, as the specification states it: feed_line of a line that matches
\* the grammar and whose kind has no parser returns a Generic record of the
\* line, stored last under its tag in the open frame.
C13_UnregisteredIsGeneric ==
    [][ (call'.op = "feed_line" /\ Unregistered(call'.args[1]))
        => /\ ~IsNone(ret'.val)
           /\ GenericRecordOf(Val(ret'.val), call'.args[1])
           /\ StoredUnder(frames', current', TagOf(call'.args[1])) # << >>
           /\ Last(StoredUnder(frames', current', TagOf(call'.args[1])))
                = Val(ret'.val) ]_vars

\* C13, as the code has it: the line yields the Generic record when its
\* header has five characters or more and, with checksum verification on,
\* it declares no checksum other than the XOR of its body; else feed_line
\* returns None and leaves the decoder as it was.
C13_UnregisteredIsGenericOrDropped ==
    [][ (call'.op = "feed_line" /\ Unregistered(call'.args[1]))
        => IF \/ Len(HeaderOf(call'.args[1])) < 5
              \/ verify_checksum /\ DeclaresWrongChecksum(call'.args[1])
           THEN /\ ret' = Return(None)
                /\ UNCHANGED decoder_vars
           ELSE /\ ~IsNone(ret'.val)
                /\ GenericRecordOf(Val(ret'.val), call'.args[1])
                /\ StoredUnder(frames', current', TagOf(call'.args[1])) # << >>
                /\ Last(StoredUnder(frames', current', TagOf(call'.args[1])))
                     = Val(ret'.val) ]_vars

\* With GGA aliased to ZDA, a kind without parser, the position fix has been
\* fed with its right checksum: its record is a Generic record tagged GGA.
C13_AliasedToUnregistered ==
    /\ call = Called("feed_line", << "$GNGGA,1,4807.038,N,01131.000,E,1*71", None >>)
    /\ "GGA" \in DOMAIN aliases
    /\ aliases["GGA"] = "ZDA"
    /\ ~IsNone(ret.val)
    /\ Val(ret.val).cls = "NMEAGeneric"
    /\ Val(ret.val).msg_type = "GGA"
    /\ Val(ret.val).fields = << "1", "4807.038", "N", "01131.000", "E", "1" >>

-----------------------------------------------------------------------------
(* Properties of the decoding of latitudes and longitudes (SpecLatLon).    *)
(* Angles are in DegUnit-ths of a degree: thousandths of a minute.         *)

AllDigits(s) == Len(s) >= 1 /\ \A i \in 1..Len(s) : isdigit(SubSeq(s, i, i))

\* The value has the form of degrees and decimal minutes for the
\* hemisphere: two digits of degrees for N and S, three for E and W, two
\* digits of minutes, a point and the digits of the fraction.
DegreesMinutes(v, hemi) ==
    /\ hemi \in { "N", "S", "E", "W" }
    /\ Len(v) >= (IF hemi \in { "N", "S" } THEN 6 ELSE 7)
    /\ AllDigits(SubSeq(v, 1, IF hemi \in { "N", "S" } THEN 4 ELSE 5))
    /\ SubSeq(v, (IF hemi \in { "N", "S" } THEN 5 ELSE 6),
                 (IF hemi \in { "N", "S" } THEN 5 ELSE 6)) = "."
    /\ AllDigits(SubSeq(v, (IF hemi \in { "N", "S" } THEN 6 ELSE 7), Len(v)))

\* degrees + minutes / 60 of a value of that form, negated for S and W
DecimalDegrees(v, hemi) ==
    (IF hemi \in { "S", "W" } THEN 0 - 1 ELSE 1)
    * ( digits_value(SubSeq(v, 1, IF hemi \in { "N", "S" } THEN 2 ELSE 3)) * 60 * 1000
        + digits_value(SubSeq(v, (IF hemi \in { "N", "S" } THEN 3 ELSE 4),
                                 (IF hemi \in { "N", "S" } THEN 4 ELSE 5))) * 1000
        + frac_milli(SubSeq(v, (IF hemi \in { "N", "S" } THEN 6 ELSE 7), Len(v))) )

\* C14: parse_lat_lon never raises; it returns degrees + minutes / 60,
\* negated for S and W, for a value of the degrees-and-minutes form with one
\* of the hemispheres N, S, E, W, and None for every other pair.
C14_AbsentUnlessValid ==
    call.op = "parse_lat_lon"
    => /\ ret.kind = "return"
       /\ IF DegreesMinutes(call.args[1], call.args[2])
          THEN ret.val = Some(DecimalDegrees(call.args[1], call.args[2]))
          ELSE IsNone(ret.val)

-----------------------------------------------------------------------------
(* Further properties of the pipeline (Spec) *)

\* The first GGA record of the frame has a latitude and a longitude.
UsableFix(frame) ==
    /\ Len(GGA(frame)) >= 1
    /\ ~IsNone(GGA(frame)[1].lat_deg)
    /\ ~IsNone(GGA(frame)[1].lon_deg)

\* The results that poll has put on the list of pending results
Pending(trace) ==
    [ i \in 1..Len(SelectSeq(trace, LAMBDA e : ~IsNone(e.ucm) /\ ~e.notified)) |->
        Val(SelectSeq(trace, LAMBDA e : ~IsNone(e.ucm) /\ ~e.notified)[i].ucm) ]

\* C15: no frame is closed twice; the rollover that closes a frame with a
\* usable fix makes one result, with the epoch id of the frame and the
\* latitude and longitude of its first GGA record, and hands it over once
\* (to the on_ucm handler when one is registered, else to the pending
\* results); the rollover that closes another frame, and the line that
\* closes none, make no result.
C15_OneResultPerClosedEpoch ==
    /\ \A k \in 1..Len(hist.trace) :
          IF hist.trace[k].closed # Null /\ UsableFix(frames[hist.trace[k].closed])
          THEN /\ ~IsNone(hist.trace[k].ucm)
               /\ Val(hist.trace[k].ucm).epoch_id = frames[hist.trace[k].closed].epoch_id
               /\ Val(hist.trace[k].ucm).lat_deg
                    = Val(GGA(frames[hist.trace[k].closed])[1].lat_deg)
               /\ Val(hist.trace[k].ucm).lon_deg
                    = Val(GGA(frames[hist.trace[k].closed])[1].lon_deg)
               /\ hist.trace[k].notified = on_ucm
          ELSE /\ IsNone(hist.trace[k].ucm)
               /\ ~hist.trace[k].notified
    /\ \A j, k \in 1..Len(hist.trace) :
          (j < k /\ hist.trace[j].closed # Null)
          => hist.trace[j].closed # hist.trace[k].closed
    /\ pending_ucm = Pending(hist.trace)

\* A frame with a usable fix and a frame whose GGA record has no position
\* have been closed: one result is pending.
C15_FixAndNoFixClosed ==
    /\ Len(pending_ucm) = 1
    /\ \E k \in 1..Len(hist.trace) :
          /\ hist.trace[k].closed # Null
          /\ Len(GGA(frames[hist.trace[k].closed])) >= 1
          /\ ~UsableFix(frames[hist.trace[k].closed])
    /\ \E k \in 1..Len(hist.trace) :
          /\ hist.trace[k].closed # Null
          /\ UsableFix(frames[hist.trace[k].closed])

-----------------------------------------------------------------------------
(* The lists of an epoch frame (SpecDecoder) *)

\* The tags of the lines fed and the tags under which a frame stores records
KindsOf(fs) ==
    { "RMC", "GGA", "ZDA" }
    \cup UNION { { fs[i].messages_by_type[j].key :
                     j \in 1..Len(fs[i].messages_by_type) } : i \in 1..Len(fs) }

\* The list of a kind in the i-th frame, empty when there is no such frame
ListOf(fs, i, kind) == IF i \in 1..Len(fs) THEN get(fs[i], kind) ELSE << >>

\* C16: in every call, the list of every kind in every frame stays as it
\* is, but for the list of the kind of the record that feed_line returns in
\* the open frame: that record is appended to it.  No record is removed,
\* moved or overwritten, and equal records are all kept.
C16_ListsGrowAtTheEnd ==
    [][ \A i \in 1..Len(frames') : \A kind \in KindsOf(frames') :
           ListOf(frames', i, kind) =
              IF /\ call'.op = "feed_line"
                 /\ ~IsNone(ret'.val)
                 /\ i = current'
                 /\ kind = Val(ret'.val).msg_type
              THEN Append(ListOf(frames, i, kind), Val(ret'.val))
              ELSE ListOf(frames, i, kind) ]_vars

\* The open frame holds two equal RMC records, and a GGA record that came
\* between them.
C16_DuplicatesKept ==
    /\ current # Null
    /\ Len(get(frames[current], "RMC")) = 2
    /\ get(frames[current], "RMC")[1] = get(frames[current], "RMC")[2]
    /\ Len(get(frames[current], "GGA")) = 1
    /\ frames[current].messages_by_type[1].key = "RMC"

\* C17: a rollover that has called the on_ucm handler has gone on to its
\* end: it has opened a new epoch and, when the line is a valid FixData
\* sentence, added its record to that epoch.
C17_NotificationKeepsRollover ==
    \A k \in 1..Len(hist.trace) :
       hist.trace[k].notified
       => /\ hist.trace[k].done
          /\ hist.trace[k].opened # Null
          /\ IsFixData(hist.trace[k].line)
             => /\ ~IsNone(hist.trace[k].msg)
                /\ hist.trace[k].added = hist.trace[k].opened

\* C18: a line closes an epoch, and opens one, only when the decoder makes a
\* GGA record of it; the first record of an epoch that a rollover opened is
\* the GGA record of the line that opened it.
C18_RolloverOnlyForFixData ==
    \A k \in 1..Len(hist.trace) :
       /\ (hist.trace[k].closed # Null \/ hist.trace[k].opened # Null)
          => IsFixData(hist.trace[k].line)
       /\ hist.trace[k].opened # Null
          => /\ frames[hist.trace[k].opened].messages_by_type # << >>
             /\ frames[hist.trace[k].opened].messages_by_type[1].msgs[1]
                  = Val(RecordOf(hist.trace[k].line))
             /\ frames[hist.trace[k].opened].messages_by_type[1].msgs[1].cls = "NMEAGGA"

=============================================================================
